---- MODULE Spec2Model ----
(***************************************************************************)
(* Model of the webitel socket client: the request correlator              *)
(* (Client.request / Client.onMessage), the inbound router, the call       *)
(* registry (Client.handleCallEvents, callStore) and the Call entity       *)
(* (state changes, permission getters, hold / unHold).                     *)
(*                                                                         *)
(* Objects are modelled by reference: heap is the sequence of Call objects *)
(* ever constructed, a reference is an index into it, and callStore maps   *)
(* a key to a reference.  Promises returned by request() are the entries   *)
(* of futures; queueRequest maps a sequence id to the index of the promise *)
(* whose resolve / reject callbacks were stored under it.                  *)
(***************************************************************************)
EXTENDS Integers, Sequences, FiniteSets, TLC

\* ---------------------------------------------------------------- bounds
\* What one run may do: every request issued, every Call constructed and
\* every notification published counts one.
MaxOps == 4

\* ---------------------------------------------------------------- inputs
CallIds == {"c1", "c2"}
NoId == ""
BridgedIds == {"b1"}
\* The payloads of ringing events, each with the sip session the phone holds
\* for the call (0: none): a plain inbound call, a queue call that has a
\* parent and may be answered automatically, and an outbound call.
CallInfos ==
  {[direction |-> "inbound", parent_id |-> NoId, queue_type |-> "none", session |-> 0],
   [direction |-> "inbound", parent_id |-> "p1", queue_type |-> "offline", session |-> 1],
   [direction |-> "outbound", parent_id |-> NoId, queue_type |-> "none", session |-> 0]}
Causes == {"NORMAL_CLEARING"}
Digits == {"1"}
Applications == {"playback"}
UserActions == {"call_invite"}
\* The handlers consumers pass to the subscribe methods.
Handlers == {"h1"}

STATUS_OK == "OK"
STATUS_FAIL == "FAIL"
Statuses == {STATUS_OK, STATUS_FAIL}

WEBSOCKET_EVENT_CALL == "call"
WEBSOCKET_EVENT_USER_STATE == "user_state"
WEBSOCKET_EVENT_SIP == "sip"
WEBSOCKET_EVENT_AGENT_STATUS == "agent_status"
WEBSOCKET_EVENT_QUEUE_JOIN_MEMBER == "queue_join_member"
WEBSOCKET_DEFAULT_DEVICE_CONFIG == "user_default_device"
WEBSOCKET_AUTHENTICATION_CHALLENGE == "authentication_challenge"

\* The channels the public surface lets a consumer subscribe to.
SubChannels ==
  {WEBSOCKET_EVENT_CALL, WEBSOCKET_EVENT_USER_STATE, WEBSOCKET_EVENT_AGENT_STATUS,
   WEBSOCKET_EVENT_QUEUE_JOIN_MEMBER}

\* The request each subscribe method issues for its channel.
SubscribeAction(channel) ==
  CASE channel = WEBSOCKET_EVENT_CALL -> "subscribe_call"
    [] channel = WEBSOCKET_EVENT_QUEUE_JOIN_MEMBER -> "subscribe_queue_join_member"
    [] channel = WEBSOCKET_EVENT_USER_STATE -> "subscribe_users_status"
    [] channel = WEBSOCKET_EVENT_AGENT_STATUS -> "cc_agent_subscribe_status"

\* The request unSubscribe(action, handler) issues: un_subscribe_${action}.
UnSubscribeAction(channel) ==
  CASE channel = WEBSOCKET_EVENT_CALL -> "un_subscribe_call"
    [] channel = WEBSOCKET_EVENT_QUEUE_JOIN_MEMBER -> "un_subscribe_queue_join_member"
    [] channel = WEBSOCKET_EVENT_USER_STATE -> "un_subscribe_user_state"
    [] channel = WEBSOCKET_EVENT_AGENT_STATUS -> "un_subscribe_agent_status"

\* Event names the server may put on a non-call, non-hello message.
OtherEventNames ==
  {WEBSOCKET_EVENT_USER_STATE, WEBSOCKET_EVENT_SIP, WEBSOCKET_EVENT_AGENT_STATUS,
   WEBSOCKET_EVENT_QUEUE_JOIN_MEMBER, "unknown"}

\* CallActions of events that are applied to a registered Call.
UpdateActions ==
  {"active", "bridge", "execute", "dtmf", "voice", "silence", "hold", "hangup"}

\* CallActions values handleCallEvents has no case for.
UnhandledActions == {"update"}

VARIABLES
  socket,        \* the transport: "open" or "closed"
  connectionInfo,\* "none" until the hello event, then the info it carried
  phone,         \* TRUE once connected() has constructed the SipPhone
  reqSeq,        \* Client.reqSeq
  queueRequest,  \* Client.queueRequest: seq -> index of the promise in futures
  futures,       \* the promises request() has returned, in order of issue
  sent,          \* frames handed to socket.send, in order
  heap,          \* every Call object constructed, in order of construction
  callStore,     \* Client.callStore: key -> reference into heap
  awaiting,      \* references whose ringing handler waits in call.answer()
  emitted,       \* eventHandler.emit calls, in order
  handlers,      \* eventHandler: channel -> the handlers added with on()
  callers,       \* index of a promise -> the subscribe / unSubscribe call awaiting it
  lastOp         \* the operation or handler that ran last, and how it ended

vars ==
  <<socket, connectionInfo, phone, reqSeq, queueRequest, futures, sent,
    heap, callStore, awaiting, emitted, handlers, callers, lastOp>>

\* ------------------------------------------------------------- Map helpers
MapSet(m, k, v) == [x \in DOMAIN m \cup {k} |-> IF x = k THEN v ELSE m[x]]

MapDelete(m, k) == [x \in DOMAIN m \ {k} |-> m[x]]

EmptyMap == [x \in {} |-> 0]

Op(op, key, num, res) == [op |-> op, key |-> key, num |-> num, res |-> res]

\* ------------------------------------------------------ request correlator
\* Variant of PendingKey: the counter is not advanced once it has left 0.
PendingKeyStuck(rs) == IF rs = 0 THEN 1 ELSE rs

\* The value of ++this.reqSeq: the key the callbacks are stored under.
PendingKey(rs) == rs + 1

\* Variant of FrameSeq: the frame carries the counter as it was before the
\* increment.
FrameSeqBefore(rsAfter) == rsAfter - 1

\* The seq field of the frame: this.reqSeq read after the increment.
FrameSeq(rsAfter) == rsAfter

NewFuture(seq, action) ==
  [seq |-> seq, action |-> action, state |-> "pending", value |-> "",
   by |-> 0, settles |-> 0]

\* Variant of Settle: the two branches are exchanged.
SettleSwapped(f, m) ==
  IF f.state = "pending"
  THEN [f EXCEPT !.state = IF m.status = STATUS_OK THEN "rejected" ELSE "fulfilled",
                 !.value = IF m.status = STATUS_OK THEN m.error ELSE m.data,
                 !.by = m.seq_reply,
                 !.settles = @ + 1]
  ELSE [f EXCEPT !.settles = @ + 1]

\* promise.resolve(message.data) or promise.reject(message.error); a promise
\* keeps its first settlement.
Settle(f, m) ==
  IF f.state = "pending"
  THEN [f EXCEPT !.state = IF m.status = STATUS_OK THEN "fulfilled" ELSE "rejected",
                 !.value = IF m.status = STATUS_OK THEN m.data ELSE m.error,
                 !.by = m.seq_reply,
                 !.settles = @ + 1]
  ELSE [f EXCEPT !.settles = @ + 1]

\* Variant of ReplyResult: without the has() test, the callbacks of an absent
\* entry are undefined and calling them throws.
ReplyResultNoHas(q, f, m) ==
  IF m.seq_reply \in DOMAIN q
  THEN [q |-> MapDelete(q, m.seq_reply),
        f |-> [f EXCEPT ![q[m.seq_reply]] = Settle(@, m)],
        res |-> "settled"]
  ELSE [q |-> q, f |-> f, res |-> "throw"]

\* The reply branch of onMessage on table q and promises f.
ReplyResult(q, f, m) ==
  IF m.seq_reply \in DOMAIN q
  THEN [q |-> MapDelete(q, m.seq_reply),
        f |-> [f EXCEPT ![q[m.seq_reply]] = Settle(@, m)],
        res |-> "settled"]
  ELSE [q |-> q, f |-> f, res |-> "dropped"]

\* Client.request(action, data): callId is the id the data carries, if any.
RequestEffect(action, callId) ==
  /\ reqSeq' = PendingKey(reqSeq)
  /\ queueRequest' = MapSet(queueRequest, PendingKey(reqSeq), Len(futures) + 1)
  /\ futures' = Append(futures, NewFuture(PendingKey(reqSeq), action))
  /\ sent' = Append(sent, [seq |-> FrameSeq(reqSeq'), action |-> action, id |-> callId])

NoRequest == UNCHANGED <<reqSeq, queueRequest, futures, sent>>

\* ------------------------------------------------------------------- Call
\* new Call(client, e): e.session is what client.phone returns for the event.
NewCall(e) ==
  [id |-> e.id, state |-> e.event, direction |-> e.direction,
   parentId |-> e.parent_id, queue |-> e.queue_type, sip |-> e.session,
   peerStreams |-> FALSE, createdAt |-> e.timestamp, answeredAt |-> 0,
   bridgedAt |-> 0, hangupAt |-> 0, bridgedId |-> NoId, hangupCause |-> "",
   voice |-> TRUE, digits |-> <<>>, applications |-> <<>>]

SetState(c, e) == [c EXCEPT !.state = e.event]

\* Variant of SetActive: the answer time is overwritten by every active event.
SetActiveEveryTime(c, e) ==
  SetState([c EXCEPT !.answeredAt = e.timestamp], e)

SetActive(c, e) ==
  LET first == c.answeredAt = 0
      inbound == c.direction = "inbound"
  IN  SetState(
        [c EXCEPT !.bridgedAt = IF first /\ inbound THEN e.timestamp ELSE @,
                  !.bridgedId = IF first /\ inbound /\ c.parentId # NoId
                                THEN c.parentId ELSE @,
                  !.answeredAt = IF first THEN e.timestamp ELSE @],
        e)

SetBridged(c, e) ==
  [c EXCEPT !.bridgedAt = IF c.bridgedAt = 0 THEN e.timestamp ELSE @,
            !.bridgedId = e.bridged_id]

SetHold(c, e) == SetState(c, e)

SetVoice(c) == [c EXCEPT !.voice = TRUE]

SetSilence(c) == [c EXCEPT !.voice = FALSE]

\* Variant of SetExecute: the event's action also becomes the state.
SetExecuteSetsState(c, e) ==
  [c EXCEPT !.applications = Append(@, e.application), !.state = e.event]

SetExecute(c, e) == [c EXCEPT !.applications = Append(@, e.application)]

AddDigit(c, e) == [c EXCEPT !.digits = Append(@, e.digit)]

\* Variant of SetHangup: the cause is not recorded.
SetHangupNoCause(c, e) ==
  SetState([c EXCEPT !.hangupAt = e.timestamp, !.voice = FALSE, !.peerStreams = FALSE], e)

SetHangup(c, e) ==
  SetState(
    [c EXCEPT !.hangupAt = e.timestamp, !.hangupCause = e.cause,
              !.voice = FALSE, !.peerStreams = FALSE],
    e)

\* Math.round(n / d) for d > 0: the nearest integer, halves rounded up.
MathRound(n, d) == (2 * n + d) \div (2 * d)

\* Variant of Duration: the milliseconds are not divided down to seconds.
DurationUnrounded(c, now) ==
  IF c.hangupAt = 0 THEN now - c.createdAt ELSE c.hangupAt - c.createdAt

\* The duration getter; now is Date.now().
Duration(c, now) ==
  IF c.hangupAt = 0
    THEN MathRound(now - c.createdAt, 1000)
    ELSE MathRound(c.hangupAt - c.createdAt, 1000)

\* The active getter.
Active(c) == c.hangupAt = 0

AllowHangup(c) == c.hangupAt = 0

\* Variant of AllowDtmf: the answer time is not consulted.
AllowDtmfUnanswered(c) == AllowHangup(c)

AllowDtmf(c) == c.answeredAt > 0 /\ AllowHangup(c)

AllowHold(c) == c.hangupAt = 0 /\ (c.state = "active" \/ c.state = "bridge")

AllowAnswer(c) == c.hangupAt = 0 /\ c.answeredAt = 0

AllowUnHold(c) == c.hangupAt = 0 /\ c.state = "hold"

AutoAnswer(c) == c.queue # "none" /\ (c.queue = "offline" \/ c.queue = "preview")

\* Variant of HoldThrows: hold() has no guard.
HoldNeverThrows(c) == FALSE

\* The guard of Call.hold(): throws when it is true.
HoldThrows(c) == c.state = "hold"

\* The guard of Call.unHold(): throws when it is true.
UnHoldThrows(c) == c.state # "hold"

\* --------------------------------------------------------------- registry
\* Variant of StoreKey: the Call is stored under its parent's id.
StoreKeyParent(call) == call.parentId

\* The key under which handleCallEvents stores a new Call.
StoreKey(call) == call.id

\* SetPeerStreams: streams is TRUE for a list of streams, FALSE for null.
SetPeerStreams(c, streams) == [c EXCEPT !.peerStreams = streams]

\* Variant of CallBySession: every Call ever constructed is searched, not
\* only the registered ones.
CallBySessionAnyCall(id) ==
  LET found == {r \in DOMAIN heap : heap[r].sip # 0 /\ heap[r].id = id}
  IN  IF found = {} THEN 0 ELSE CHOOSE r \in found : \A q \in found : r <= q

\* Client.callBySession(session), for the phone's session of call id: the
\* registered Call whose sip is that session, or 0 for undefined.
CallBySession(id) ==
  LET found == {callStore[k] : k \in {x \in DOMAIN callStore :
                                        /\ heap[callStore[x]].sip # 0
                                        /\ heap[callStore[x]].id = id}}
  IN  IF found = {} THEN 0 ELSE CHOOSE r \in found : TRUE

\* Client.callById(id): a reference, or 0 for undefined.
CallById(id) == IF id \in DOMAIN callStore THEN callStore[id] ELSE 0

\* Client.allCall(): the references the registry holds.
AllCall == {callStore[k] : k \in DOMAIN callStore}

\* The method a registered Call receives for an event of UpdateActions.
ApplyEvent(c, e) ==
  CASE e.event = "active" -> SetActive(c, e)
    [] e.event = "bridge" -> SetBridged(c, e)
    [] e.event = "execute" -> SetExecute(c, e)
    [] e.event = "dtmf" -> AddDigit(c, e)
    [] e.event = "voice" -> SetVoice(c)
    [] e.event = "silence" -> SetSilence(c)
    [] e.event = "hold" -> SetHold(c, e)
    [] e.event = "hangup" -> SetHangup(c, e)

\* The handlers eventHandler.emit(channel, ...) invokes.
Subscribers(channel) == IF channel \in DOMAIN handlers THEN handlers[channel] ELSE {}

\* eventHandler.on(channel, handler) on the handler table hs.
On(hs, channel, handler) == [hs EXCEPT ![channel] = @ \cup {handler}]

\* Variant of AwaitReturns: the code after the await also runs when the
\* promise was rejected.
AwaitReturnsOrThrows(f) == f.state # "pending"

\* await on the promise f lets the code after it run: f is fulfilled (when f
\* is rejected the await throws and the caller is left).
AwaitReturns(f) == f.state = "fulfilled"

\* What the await of a subscribe / unSubscribe call does to the handler table
\* once its request is fulfilled: subscribe adds the handler, unSubscribe has
\* its removal commented out.
Resume(hs, caller) ==
  IF caller.op = "subscribe" THEN On(hs, caller.channel, caller.handler) ELSE hs

\* Variant of Emit: the notification is published before the event is
\* applied, so the handlers read the Call as it was.
EmitBeforeMutation(channel, action, ref) ==
  emitted' = Append(emitted,
                    [channel |-> channel, action |-> action, ref |-> ref,
                     to |-> Subscribers(channel),
                     state |-> IF ref \in DOMAIN heap THEN heap[ref].state ELSE ""])

\* eventHandler.emit(channel, action, call): the notification, the handlers
\* it is delivered to and the state they read from the Call.
Emit(channel, action, ref) ==
  emitted' = Append(emitted,
                    [channel |-> channel, action |-> action, ref |-> ref,
                     to |-> Subscribers(channel),
                     state |-> IF ref = 0 THEN "" ELSE heap'[ref].state])

\* ------------------------------------------------------------------ inputs
\* Replies carry a sequence id that was issued, or one that never was.
Replies ==
  [seq_reply : 1 .. (reqSeq + 1), status : Statuses, data : {"data"}, error : {"error"}]

\* The timestamps the client has recorded so far.
Stamps ==
  UNION {{heap[i].createdAt, heap[i].answeredAt, heap[i].bridgedAt, heap[i].hangupAt} :
           i \in DOMAIN heap}

\* The server stamps an event with its clock, which starts at 1000 and is 5
\* later than every timestamp the client has recorded.
NextTimestamps ==
  {IF heap = <<>> THEN 1000 ELSE 5 + CHOOSE m \in Stamps : \A x \in Stamps : x <= m}

RingingEvents ==
  {[id |-> i, event |-> "ringing", timestamp |-> t, direction |-> d.direction,
    parent_id |-> d.parent_id, queue_type |-> d.queue_type, session |-> d.session] :
     i \in CallIds, t \in NextTimestamps, d \in CallInfos}

UpdateEvents ==
  [id : CallIds, event : UpdateActions, timestamp : NextTimestamps,
   bridged_id : BridgedIds, cause : Causes, digit : Digits,
   application : Applications]

\* Requests issued, Calls constructed, notifications published, handlers
\* waiting to publish and subscription calls made.
Ops ==
  Len(futures) + Len(heap) + Len(emitted) + Cardinality(awaiting)
    + Cardinality(DOMAIN callers)

\* ------------------------------------------------------------------- Init
Init ==
  /\ socket = "open"
  /\ connectionInfo = "none"
  /\ phone = FALSE
  /\ reqSeq = 0
  /\ queueRequest = EmptyMap
  /\ futures = <<>>
  /\ sent = <<>>
  /\ heap = <<>>
  /\ callStore = [x \in {} |-> 0]
  /\ awaiting = {}
  /\ emitted = <<>>
  /\ handlers = [c \in SubChannels |-> {}]
  /\ callers = EmptyMap
  /\ lastOp = Op("init", "", 0, "ok")

\* ---------------------------------------------------------------- actions
\* A caller issues a request (invite and the like).
Request(action) ==
  /\ Ops < MaxOps
  /\ RequestEffect(action, NoId)
  /\ lastOp' = Op("request", action, reqSeq', "sent")
  /\ UNCHANGED <<socket, connectionInfo, phone, heap, callStore, awaiting, emitted, handlers, callers>>

\* subscribeCall, subscribeQueueJoinMember, subscribeUsersStatus or
\* subscribeAgentsStatus(handler), up to its await of the request.
Subscribe(channel, handler) ==
  /\ Ops + 1 < MaxOps
  /\ RequestEffect(SubscribeAction(channel), NoId)
  /\ callers' = MapSet(callers, Len(futures) + 1,
                        [op |-> "subscribe", channel |-> channel, handler |-> handler])
  /\ lastOp' = Op("subscribe", channel, reqSeq', "sent")
  /\ UNCHANGED <<socket, connectionInfo, phone, heap, callStore, awaiting, emitted, handlers>>

\* unSubscribe(action, handler), up to its await of the request.
UnSubscribe(channel, handler) ==
  /\ Ops + 1 < MaxOps
  /\ RequestEffect(UnSubscribeAction(channel), NoId)
  /\ callers' = MapSet(callers, Len(futures) + 1,
                        [op |-> "unSubscribe", channel |-> channel, handler |-> handler])
  /\ lastOp' = Op("unSubscribe", channel, reqSeq', "sent")
  /\ UNCHANGED <<socket, connectionInfo, phone, heap, callStore, awaiting, emitted, handlers>>

\* onMessage, message.seq_reply > 0; the caller awaiting the request resumes
\* before the next message is handled.
OnReply(m) ==
  /\ socket = "open"
  /\ m.seq_reply > 0
  /\ LET r == ReplyResult(queueRequest, futures, m)
     IN  /\ queueRequest' = r.q
         /\ futures' = r.f
         /\ handlers' = IF /\ r.res = "settled"
                           /\ queueRequest[m.seq_reply] \in DOMAIN callers
                           /\ AwaitReturns(r.f[queueRequest[m.seq_reply]])
                        THEN Resume(handlers, callers[queueRequest[m.seq_reply]])
                        ELSE handlers
         /\ lastOp' = IF r.res = "settled"
                       THEN Op("reply", m.status, m.seq_reply, r.res)
                       ELSE Op("reply", "", 0, r.res)
  /\ UNCHANGED <<socket, connectionInfo, phone, reqSeq, sent, heap,
                 callStore, awaiting, emitted, callers>>

\* onMessage, event hello: connected(info), up to its wait for the device
\* configuration; useWebPhone is _config.registerWebDevice, read only here.
\* The server greets once per connection.
OnHello(useWebPhone) ==
  /\ socket = "open"
  /\ connectionInfo = "none"
  /\ connectionInfo' = "info"
  /\ phone' = TRUE
  /\ IF useWebPhone
     THEN /\ Ops < MaxOps
          /\ RequestEffect(WEBSOCKET_DEFAULT_DEVICE_CONFIG, NoId)
     ELSE NoRequest
  /\ lastOp' = Op("hello", "", 0, "ok")
  /\ UNCHANGED <<socket, heap, callStore, awaiting, emitted, handlers, callers>>

\* onMessage, event call, action ringing; hidden is document.hidden.  The
\* server sends call events after its greeting, so the phone exists.  The
\* handler emits at once unless call.answer() waits for the phone's call
\* options.
OnCallRinging(e, hidden) ==
  /\ socket = "open"
  /\ phone
  /\ Ops + 1 < MaxOps
  /\ LET call == NewCall(e)
         ref == Len(heap) + 1
     IN  /\ heap' = Append(heap, call)
         /\ callStore' = MapSet(callStore, StoreKey(call), ref)
         /\ IF ~hidden /\ AutoAnswer(call) /\ call.sip # 0
            THEN /\ awaiting' = awaiting \cup {ref}
                 /\ UNCHANGED emitted
                 /\ lastOp' = Op("call", e.event, ref, "waiting")
            ELSE /\ UNCHANGED awaiting
                 /\ Emit(WEBSOCKET_EVENT_CALL, e.event, ref)
                 /\ lastOp' = Op("call", e.event, ref, "emitted")
  /\ NoRequest
  /\ UNCHANGED <<socket, connectionInfo, phone, handlers, callers>>

\* The ringing handler resumes after call.answer(): it emits the ringing
\* notification.
AnswerDone(ref) ==
  /\ ref \in awaiting
  /\ awaiting' = awaiting \ {ref}
  /\ UNCHANGED <<socket, connectionInfo, phone, heap, callStore, handlers, callers>>
  /\ Emit(WEBSOCKET_EVENT_CALL, "ringing", ref)
  /\ lastOp' = Op("answered", "ringing", ref, "emitted")
  /\ NoRequest

\* onMessage, event call, an action applied to the registered Call.
OnCallUpdate(e) ==
  /\ socket = "open"
  /\ phone
  /\ Ops < MaxOps
  /\ LET ref == CallById(e.id)
     IN  IF ref # 0
         THEN /\ heap' = [heap EXCEPT ![ref] = ApplyEvent(@, e)]
              /\ callStore' = IF e.event = "hangup"
                              THEN MapDelete(callStore, heap'[ref].id)
                              ELSE callStore
              /\ Emit(WEBSOCKET_EVENT_CALL, e.event, ref)
              /\ lastOp' = Op("call", e.event, ref, "emitted")
         ELSE /\ UNCHANGED <<heap, callStore, emitted>>
              /\ lastOp' = Op("call", "", 0, "ignored")
  /\ NoRequest
  /\ UNCHANGED <<socket, connectionInfo, phone, awaiting, handlers, callers>>

\* The phone's peerStreams event for the session of call id: the handler
\* connected() registered.
OnPeerStreams(id, streams) ==
  /\ phone
  /\ LET ref == CallBySession(id)
     IN  IF ref # 0 /\ ~heap[ref].peerStreams
         THEN /\ Ops < MaxOps
              /\ heap' = [heap EXCEPT ![ref] = SetPeerStreams(@, streams)]
              /\ Emit(WEBSOCKET_EVENT_CALL, "peerStream", ref)
              /\ lastOp' = Op("peerStreams", id, ref, "emitted")
         ELSE /\ UNCHANGED <<heap, emitted>>
              /\ lastOp' = Op("peerStreams", id, 0, "ignored")
  /\ NoRequest
  /\ UNCHANGED <<socket, connectionInfo, phone, callStore, awaiting, handlers, callers>>

\* onMessage, event call, an action without a case: handleCallEvents throws.
OnCallUnhandled(id, action) ==
  /\ socket = "open"
  /\ phone
  /\ lastOp' = Op("call", action, 0, "throw")
  /\ NoRequest
  /\ UNCHANGED <<socket, connectionInfo, phone, heap, callStore, awaiting, emitted, handlers, callers>>

\* onMessage, any other event name.
OnOtherEvent(name) ==
  /\ socket = "open"
  /\ IF name \in {WEBSOCKET_EVENT_USER_STATE, WEBSOCKET_EVENT_SIP,
                  WEBSOCKET_EVENT_AGENT_STATUS}
     THEN /\ Ops < MaxOps
          /\ Emit(name, "", 0)
          /\ lastOp' = Op("event", name, 0, "emitted")
     ELSE /\ UNCHANGED emitted
          /\ lastOp' = Op("event", "", 0, "logged")
  /\ NoRequest
  /\ UNCHANGED <<socket, connectionInfo, phone, heap, callStore, awaiting, handlers, callers>>

\* call.hold() on a Call some holder has a reference to.
Hold(ref) ==
  /\ ref \in 1 .. Len(heap)
  /\ IF HoldThrows(heap[ref])
     THEN /\ NoRequest
          /\ lastOp' = Op("hold", heap[ref].id, ref, "rejected")
     ELSE /\ Ops < MaxOps
          /\ RequestEffect("call_hold", heap[ref].id)
          /\ lastOp' = Op("hold", heap[ref].id, ref, "sent")
  /\ UNCHANGED <<socket, connectionInfo, phone, heap, callStore, awaiting, emitted, handlers, callers>>

\* call.unHold() on a Call some holder has a reference to.
UnHold(ref) ==
  /\ ref \in 1 .. Len(heap)
  /\ IF UnHoldThrows(heap[ref])
     THEN /\ NoRequest
          /\ lastOp' = Op("unHold", heap[ref].id, ref, "rejected")
     ELSE /\ Ops < MaxOps
          /\ RequestEffect("call_unhold", heap[ref].id)
          /\ lastOp' = Op("unHold", heap[ref].id, ref, "sent")
  /\ UNCHANGED <<socket, connectionInfo, phone, heap, callStore, awaiting, emitted, handlers, callers>>

\* Client.disconnect(), or the transport closing: no message arrives after.
Close ==
  /\ socket = "open"
  /\ socket' = "closed"
  /\ lastOp' = Op("close", "", 0, "ok")
  /\ NoRequest
  /\ UNCHANGED <<connectionInfo, phone, heap, callStore, awaiting, emitted, handlers, callers>>

\* The client with no subscriber: requests, replies, inbound events and the
\* Call operations. Subscribing and the phone's stream events are in SubNext
\* below.
Next ==
  \/ \E a \in UserActions : Request(a)
  \/ \E m \in Replies : OnReply(m)
  \/ \E useWebPhone \in BOOLEAN : OnHello(useWebPhone)
  \/ \E e \in RingingEvents, hidden \in BOOLEAN : OnCallRinging(e, hidden)
  \/ \E ref \in 1 .. Len(heap) : AnswerDone(ref)
  \/ \E e \in UpdateEvents : OnCallUpdate(e)
  \/ \E id \in CallIds, a \in UnhandledActions : OnCallUnhandled(id, a)
  \/ \E n \in OtherEventNames : OnOtherEvent(n)
  \/ \E ref \in 1 .. Len(heap) : Hold(ref)
  \/ \E ref \in 1 .. Len(heap) : UnHold(ref)
  \/ Close

Spec == Init /\ [][Next]_vars

\* The inbound side with subscribers: consumers subscribe and unsubscribe,
\* the server replies and pushes events, the phone reports streams.
SubNext ==
  \/ \E c \in SubChannels, h \in Handlers : Subscribe(c, h)
  \/ \E c \in SubChannels, h \in Handlers : UnSubscribe(c, h)
  \/ \E m \in Replies : OnReply(m)
  \/ \E useWebPhone \in BOOLEAN : OnHello(useWebPhone)
  \/ \E e \in RingingEvents, hidden \in BOOLEAN : OnCallRinging(e, hidden)
  \/ \E ref \in 1 .. Len(heap) : AnswerDone(ref)
  \/ \E e \in UpdateEvents : OnCallUpdate(e)
  \/ \E id \in CallIds, a \in UnhandledActions : OnCallUnhandled(id, a)
  \/ \E id \in CallIds, streams \in BOOLEAN : OnPeerStreams(id, streams)
  \/ \E n \in OtherEventNames : OnOtherEvent(n)

SubSpec == Init /\ [][SubNext]_vars

\* ----------------------------------------------------------------- claims

\* C1: every request is settled at most once, a settled request was settled
\* by the reply whose seq_reply is the seq request() assigned to it, and a
\* request not yet settled still has its callbacks in the pending table under
\* that seq, so that its reply, whenever it is delivered, settles it.
C1_SettledOnceByOwnReply ==
  \A i \in DOMAIN futures :
    LET f == futures[i]
    IN  /\ f.settles <= 1
        /\ f.state # "pending" => (f.settles = 1 /\ f.by = f.seq)
        /\ f.state = "pending" =>
             (f.seq \in DOMAIN queueRequest /\ queueRequest[f.seq] = i)

\* Two requests, the second settled before the first.
C1_Witness ==
  /\ Len(futures) >= 2
  /\ futures[1].state # "pending"
  /\ futures[2].state # "pending"
  /\ lastOp.op = "reply"
  /\ lastOp.num = futures[1].seq

\* Never issued, or issued and already completed.
Stale(seq) ==
  \/ \A i \in DOMAIN futures : futures[i].seq # seq
  \/ \E i \in DOMAIN futures : futures[i].seq = seq /\ futures[i].state # "pending"

\* C2: a reply whose seq_reply was never issued, or whose request is already
\* completed, changes nothing, publishes no event and raises no error.
C2_StaleReplyNoEffect ==
  [][\A m \in Replies :
       (OnReply(m) /\ Stale(m.seq_reply)) =>
         /\ UNCHANGED <<reqSeq, queueRequest, futures, sent, heap, callStore,
                        awaiting, emitted, handlers, callers, socket,
                        connectionInfo, phone>>
         /\ lastOp'.res = "dropped"]_vars

\* A stale reply was dropped while a request is pending and a call is
\* registered.
C2_Witness ==
  /\ lastOp.op = "reply"
  /\ lastOp.res = "dropped"
  /\ DOMAIN queueRequest # {}
  /\ DOMAIN callStore # {}

\* C3: sequence ids start at 1, are strictly increasing and never reused; the
\* frame handed to the transport carries the id the pending entry was stored
\* under; the pending table holds at most one entry per request, under its id.
C3_SequenceIds ==
  /\ futures # <<>> => futures[1].seq = 1
  /\ \A i, j \in DOMAIN futures : i < j => futures[i].seq < futures[j].seq
  /\ Len(sent) = Len(futures)
  /\ \A i \in DOMAIN futures : sent[i].seq = futures[i].seq
  /\ \A k \in DOMAIN queueRequest :
       /\ queueRequest[k] \in DOMAIN futures
       /\ futures[queueRequest[k]].seq = k
  /\ \A i \in DOMAIN futures :
       Cardinality({k \in DOMAIN queueRequest : queueRequest[k] = i}) <= 1

\* Two requests are pending at once.
C3_Witness ==
  /\ Len(futures) >= 2
  /\ Cardinality(DOMAIN queueRequest) >= 2

\* C4: a reply that matches a pending request removes the entry and fulfils
\* the request's future with the payload when the status is OK, fails it with
\* the error when the status is FAIL; one callback is invoked, once.
C4_MatchingReplySettles ==
  [][\A m \in Replies :
       (OnReply(m) /\ m.seq_reply \in DOMAIN queueRequest) =>
         LET i == queueRequest[m.seq_reply]
         IN  /\ m.seq_reply \notin DOMAIN queueRequest'
             /\ futures[i].state = "pending"
             /\ futures'[i].settles = 1
             /\ m.status = STATUS_OK =>
                  (futures'[i].state = "fulfilled" /\ futures'[i].value = m.data)
             /\ m.status = STATUS_FAIL =>
                  (futures'[i].state = "rejected" /\ futures'[i].value = m.error)
             /\ \A j \in DOMAIN futures : j # i => futures'[j] = futures[j]]_vars

\* One request was fulfilled and another failed.
C4_Witness ==
  /\ \E i \in DOMAIN futures : futures[i].state = "fulfilled" /\ futures[i].value = "data"
  /\ \E i \in DOMAIN futures : futures[i].state = "rejected" /\ futures[i].value = "error"

\* C5: a call event for an id the registry holds is applied to the Call the
\* registry holds and never replaces it: as long as the id stays registered,
\* it names the same object.
C5_IdentityPreserved ==
  [][\A id \in DOMAIN callStore :
       id \in DOMAIN callStore' => callStore'[id] = callStore[id]]_vars

\* Every Call the registry holds is stored under its own id, and no two of
\* them have the same id.
RegistryWellFormed ==
  /\ \A k \in DOMAIN callStore :
       /\ callStore[k] \in DOMAIN heap
       /\ heap[callStore[k]].id = k
  /\ \A id \in CallIds : Cardinality({r \in AllCall : heap[r].id = id}) <= 1

\* C6: a ringing event for an id unknown to the registry adds exactly one Call
\* for that id and leaves the other entries alone; after any event the
\* registry holds at most one Call per id (also after a second ringing event
\* for a registered id), each stored under its own id.
C6_OneCallPerId ==
  [][/\ RegistryWellFormed'
     /\ \A e \in RingingEvents, hidden \in BOOLEAN :
          OnCallRinging(e, hidden) =>
            /\ Cardinality({r \in AllCall' : heap'[r].id = e.id}) = 1
            /\ e.id \notin DOMAIN callStore =>
                 /\ Cardinality(AllCall') = Cardinality(AllCall) + 1
                 /\ AllCall \subseteq AllCall'
                 /\ callStore'[e.id] = Len(heap')]_vars

\* Two ringing events for the same id have been handled before any hangup:
\* the registry holds one Call for the id.
C6_Witness ==
  /\ Len(heap) = 2
  /\ heap[1].id = heap[2].id
  /\ heap[1].hangupAt = 0
  /\ DOMAIN callStore = {heap[1].id}

\* C7: answeredAt of a Call is 0 until an active event is applied to it, the
\* first active event sets it to the event's timestamp, and no later step
\* changes it.
C7_AnsweredAtOnce ==
  [][/\ \A ref \in DOMAIN heap' : ref \notin DOMAIN heap => heap'[ref].answeredAt = 0
     /\ \A ref \in DOMAIN heap :
          /\ heap[ref].answeredAt # 0 => heap'[ref].answeredAt = heap[ref].answeredAt
          /\ heap'[ref].answeredAt # heap[ref].answeredAt =>
               \E e \in UpdateEvents :
                 /\ e.event = "active"
                 /\ CallById(e.id) = ref
                 /\ OnCallUpdate(e)
     /\ \A e \in UpdateEvents :
          (e.event = "active" /\ OnCallUpdate(e) /\ CallById(e.id) # 0) =>
            heap'[CallById(e.id)].answeredAt =
              IF heap[CallById(e.id)].answeredAt = 0
              THEN e.timestamp ELSE heap[CallById(e.id)].answeredAt]_vars

\* A Call has received two active events.
C7_Witness ==
  \E i, j \in DOMAIN emitted :
    /\ i < j
    /\ emitted[i].action = "active"
    /\ emitted[j].action = "active"
    /\ emitted[i].ref = emitted[j].ref
    /\ heap[emitted[i].ref].answeredAt # 0

\* C8: once a hangup event for a registered call is handled, callById(id)
\* returns nothing and allCall() does not contain the Call, while the Call
\* itself reports state hangup, the event's timestamp as hangupAt and the
\* event's cause.
C8_HangupEvicts ==
  [][\A e \in UpdateEvents :
       (e.event = "hangup" /\ OnCallUpdate(e) /\ CallById(e.id) # 0) =>
         LET ref == CallById(e.id)
         IN  /\ e.id \notin DOMAIN callStore'
             /\ ref \notin {callStore'[k] : k \in DOMAIN callStore'}
             /\ heap'[ref].state = "hangup"
             /\ heap'[ref].hangupAt = e.timestamp
             /\ heap'[ref].hangupCause = e.cause
             /\ heap'[ref].id = e.id]_vars

\* A hangup event was applied: the Call is hung up and not in the registry.
C8_Witness ==
  /\ lastOp.op = "call"
  /\ lastOp.key = "hangup"
  /\ lastOp.res = "emitted"
  /\ heap[lastOp.num].state = "hangup"
  /\ heap[lastOp.num].hangupAt # 0
  /\ lastOp.num \notin AllCall

\* C9 as stated: a hold() that directly follows a hold() on the same Call
\* rejects locally and sends nothing, and unHold() on a Call that is not on
\* hold rejects locally and sends nothing.
C9_SecondHoldRejected ==
  [][\A ref \in DOMAIN heap :
       /\ (lastOp.op = "hold" /\ lastOp.num = ref /\ Hold(ref)) =>
            (lastOp'.res = "rejected" /\ sent' = sent)
       /\ (UnHold(ref) /\ heap[ref].state # "hold") =>
            (lastOp'.res = "rejected" /\ sent' = sent)]_vars

\* C9 amended: hold() on a Call whose state is hold (the hold event has been
\* applied) rejects locally and sends nothing, and so does unHold() on a Call
\* whose state is not hold; the pending table and the counter are untouched.
C9_HoldOnHoldRejected ==
  [][\A ref \in DOMAIN heap :
       /\ (Hold(ref) /\ heap[ref].state = "hold") =>
            (lastOp'.res = "rejected" /\ NoRequest)
       /\ (UnHold(ref) /\ heap[ref].state # "hold") =>
            (lastOp'.res = "rejected" /\ NoRequest)]_vars

\* hold() was rejected on a Call that is on hold.
C9_Witness ==
  /\ lastOp.op = "hold"
  /\ lastOp.res = "rejected"
  /\ heap[lastOp.num].state = "hold"
  /\ sent = <<>>

\* C10: hold() sends a call_hold request only when may-hold is true and
\* unHold() a call_unhold request only when may-unhold is true; in every
\* other state the operation rejects locally and sends nothing.
C10_GatedByPredicates ==
  [][\A ref \in DOMAIN heap :
       /\ (Hold(ref) /\ ~AllowHold(heap[ref])) =>
            (lastOp'.res = "rejected" /\ sent' = sent)
       /\ (UnHold(ref) /\ ~AllowUnHold(heap[ref])) =>
            (lastOp'.res = "rejected" /\ sent' = sent)]_vars

\* The actions of the call notifications published for the Call at ref, in
\* order.
CallTrace(ref) ==
  LET n == SelectSeq(emitted, LAMBDA x : x.channel = WEBSOCKET_EVENT_CALL /\ x.ref = ref)
  IN  [i \in 1 .. Len(n) |-> n[i].action]

\* The trace ringing(c1, 1000, inbound, no parent), active(c1, 1005),
\* hangup(c1, 1010, NORMAL_CLEARING), with d the duration read at its end.
TraceYields(d) ==
  /\ \A e \in RingingEvents, hidden \in BOOLEAN :
       (/\ OnCallRinging(e, hidden)
        /\ e.id = "c1" /\ e.timestamp = 1000
        /\ e.direction = "inbound" /\ e.parent_id = NoId) =>
         LET ref == callStore'["c1"]
         IN  /\ Cardinality({r \in AllCall' : heap'[r].id = "c1"}) = 1
             /\ heap'[ref].state = "ringing"
             /\ heap'[ref].answeredAt = 0
  /\ \A e \in UpdateEvents :
       (/\ OnCallUpdate(e)
        /\ e.id = "c1" /\ CallById("c1") # 0) =>
         LET ref == CallById("c1")
             c == heap[ref]
         IN  /\ (/\ e.event = "active" /\ e.timestamp = 1005
                 /\ CallTrace(ref) = <<"ringing">>
                 /\ c.createdAt = 1000 /\ c.direction = "inbound"
                 /\ c.parentId = NoId) =>
                  (heap'[ref].answeredAt = 1005 /\ heap'[ref].bridgedAt = 1005)
             /\ (/\ e.event = "hangup" /\ e.timestamp = 1010
                 /\ CallTrace(ref) = <<"ringing", "active">>
                 /\ c.createdAt = 1000 /\ c.answeredAt = 1005
                 /\ c.direction = "inbound" /\ c.parentId = NoId) =>
                  (/\ heap'[ref].hangupAt = 1010
                   /\ Duration(heap'[ref], 1010) = d
                   /\ "c1" \notin DOMAIN callStore')

\* C11 as stated: the trace ringing(c1, 1000, inbound, no parent),
\* active(c1, 1005), hangup(c1, 1010) leaves one registered Call c1 ringing
\* with answeredAt 0, then answeredAt 1005 and bridgedAt 1005, then hangupAt
\* 1010, duration 5 and no c1 in the registry.
C11_TraceDurationFive == [][TraceYields(5)]_vars

\* C11, amended: the same trace with the same values, except that the
\* duration read after the hangup is 0, the 10 milliseconds between creation
\* and hangup rounded to whole seconds.
C11_TraceDurationZero == [][TraceYields(0)]_vars

\* The trace has run: c1 was created at 1000, answered at 1005 and hung up
\* at 1010, and left the registry.
C11_Witness ==
  \E ref \in DOMAIN heap :
    /\ heap[ref].id = "c1"
    /\ heap[ref].direction = "inbound" /\ heap[ref].parentId = NoId
    /\ CallTrace(ref) = <<"ringing", "active", "hangup">>
    /\ heap[ref].createdAt = 1000
    /\ heap[ref].answeredAt = 1005
    /\ heap[ref].bridgedAt = 1005
    /\ heap[ref].hangupAt = 1010
    /\ "c1" \notin DOMAIN callStore

\* C12: when unSubscribe(channel, handler) completes for a handler that
\* was added to the channel, the handler is no longer among the channel's
\* subscribers (so no later event on the channel invokes it); when the
\* handler was not subscribed, the subscribers are unchanged.
C12_UnSubscribeRemoves ==
  [][\A m \in Replies :
       (/\ OnReply(m)
        /\ m.seq_reply \in DOMAIN queueRequest
        /\ queueRequest[m.seq_reply] \in DOMAIN callers
        /\ callers[queueRequest[m.seq_reply]].op = "unSubscribe"
        /\ futures'[queueRequest[m.seq_reply]].state = "fulfilled") =>
         LET caller == callers[queueRequest[m.seq_reply]]
         IN  handlers' =
               [handlers EXCEPT ![caller.channel] = @ \ {caller.handler}]]_vars

\* The notification (action, Call at ref) is the one published in this step,
\* and its handlers read the Call as the step leaves it.
PublishedOnce(action, ref) ==
  /\ Len(emitted') = Len(emitted) + 1
  /\ SubSeq(emitted', 1, Len(emitted)) = emitted
  /\ LET n == emitted'[Len(emitted')]
     IN  /\ n.channel = WEBSOCKET_EVENT_CALL
         /\ n.action = action
         /\ n.ref = ref
         /\ n.state = heap'[ref].state

C14_HandlingNeverRaises ==
  [][/\ lastOp'.res # "throw"
     /\ \A n \in OtherEventNames :
          (OnOtherEvent(n) /\ lastOp'.res # "emitted") =>
            (lastOp'.res = "logged" /\ UNCHANGED <<queueRequest, futures, callStore, heap>>)
     /\ \A id \in CallIds, a \in UnhandledActions :
          OnCallUnhandled(id, a) =>
            (lastOp'.res = "logged" /\ UNCHANGED <<queueRequest, futures, callStore, heap>>)]_vars

\* The step publishes a notification on the channel that handler h receives.
DeliveredTo(channel, h) ==
  /\ Len(emitted') = Len(emitted) + 1
  /\ emitted'[Len(emitted')].channel = channel
  /\ h \in emitted'[Len(emitted')].to

\* C15: an inbound event named after a channel consumers can subscribe to
\* (call, user_state, agent_status, queue_join_member) is forwarded to the
\* dispatcher under that name and delivered to every handler subscribed to
\* the channel.
C15_SubscribableChannelsDelivered ==
  [][/\ \A n \in SubChannels \cap OtherEventNames :
          OnOtherEvent(n) => \A h \in handlers[n] : DeliveredTo(n, h)
     /\ \A e \in UpdateEvents :
          (OnCallUpdate(e) /\ CallById(e.id) # 0) =>
            \A h \in handlers[WEBSOCKET_EVENT_CALL] :
              DeliveredTo(WEBSOCKET_EVENT_CALL, h)]_vars

\* C16: in every state of every Call the getters equal their definitions
\* over the attributes: active and may-hangup iff hangupAt is unset, may-hold
\* iff hangupAt is unset and state is active or bridge, may-unhold iff
\* hangupAt is unset and state is hold, may-answer iff hangupAt and answeredAt
\* are unset, may-send-DTMF iff answeredAt is set and may-hangup; so may-hold
\* and may-unhold are never both true, nor may-answer and may-send-DTMF.
C16_PredicatesMatchDefinitions ==
  \A ref \in DOMAIN heap :
    LET c == heap[ref]
    IN  /\ Active(c) <=> c.hangupAt = 0
        /\ AllowHangup(c) <=> c.hangupAt = 0
        /\ AllowHold(c) <=> (c.hangupAt = 0 /\ c.state \in {"active", "bridge"})
        /\ AllowUnHold(c) <=> (c.hangupAt = 0 /\ c.state = "hold")
        /\ AllowAnswer(c) <=> (c.hangupAt = 0 /\ c.answeredAt = 0)
        /\ AllowDtmf(c) <=> (c.answeredAt # 0 /\ c.hangupAt = 0)
        /\ ~(AllowHold(c) /\ AllowUnHold(c))
        /\ ~(AllowAnswer(c) /\ AllowDtmf(c))

\* An answered call was put on hold: it may be taken off hold, hung up and
\* sent DTMF, and may neither be held nor answered.
C16_Witness ==
  \E ref \in DOMAIN heap :
    /\ CallTrace(ref) = <<"ringing", "active", "hold">>
    /\ heap[ref].state = "hold"
    /\ heap[ref].answeredAt # 0
    /\ AllowUnHold(heap[ref]) /\ AllowDtmf(heap[ref]) /\ AllowHangup(heap[ref])
    /\ ~AllowHold(heap[ref]) /\ ~AllowAnswer(heap[ref])

\* C17: inbound messages are handled one at a time and their notifications
\* are published in the order the events arrived, so the ringing notification
\* of a Call is never published after that Call's hangup notification, also
\* when the ringing handler waits for the automatic answer.
C17_RingingNeverAfterHangup ==
  \A i, j \in DOMAIN emitted :
    (/\ i < j
     /\ emitted[i].channel = WEBSOCKET_EVENT_CALL
     /\ emitted[j].channel = WEBSOCKET_EVENT_CALL
     /\ emitted[i].ref = emitted[j].ref) =>
      ~(emitted[i].action = "hangup" /\ emitted[j].action = "ringing")

\* The edges of the lifecycle graph of Call.state.
LifecycleEdges ==
  {<<"ringing", "active">>, <<"ringing", "hangup">>,
   <<"active", "bridge">>, <<"active", "hold">>, <<"active", "hangup">>,
   <<"hold", "active">>, <<"hold", "hangup">>,
   <<"bridge", "hold">>, <<"bridge", "hangup">>}

\* C18: every change of a Call's state follows an edge of the lifecycle graph
\* (an event that is illegal in the current state leaves the state as it is),
\* and a Call in state hangup never changes state again.
C18_StateFollowsLifecycle ==
  [][\A ref \in DOMAIN heap :
       heap'[ref].state # heap[ref].state =>
         <<heap[ref].state, heap'[ref].state>> \in LifecycleEdges]_vars

\* C19: a bridge event applied to a Call in state active moves the state to
\* bridge, where the live Call may be held.
C19_BridgeEventSetsBridge ==
  [][\A e \in UpdateEvents :
       (/\ OnCallUpdate(e)
        /\ e.event = "bridge"
        /\ CallById(e.id) # 0
        /\ heap[CallById(e.id)].state = "active") =>
         /\ heap'[CallById(e.id)].state = "bridge"
         /\ AllowHold(heap'[CallById(e.id)])]_vars

\* C20: bridgedAt and bridgedId are each set at most once: once set, no
\* later event changes them.
C20_BridgeFieldsSetOnce ==
  [][\A ref \in DOMAIN heap :
       /\ heap[ref].bridgedAt # 0 => heap'[ref].bridgedAt = heap[ref].bridgedAt
       /\ heap[ref].bridgedId # NoId => heap'[ref].bridgedId = heap[ref].bridgedId]_vars

\* C21: hangupAt is set at most once per Call, and from then on no inbound
\* message and no stream event of the phone changes the Call: its state stays
\* hangup, its hangupAt and cause stay as they are, its voice flag stays
\* false and its remote media handle stays cleared.
C21_HangupIsStable ==
  [][\A ref \in DOMAIN heap :
       heap[ref].hangupAt # 0 =>
         /\ heap[ref].state = "hangup"
         /\ heap'[ref].state = "hangup"
         /\ heap'[ref].hangupAt = heap[ref].hangupAt
         /\ heap'[ref].hangupCause = heap[ref].hangupCause
         /\ ~heap'[ref].voice
         /\ ~heap'[ref].peerStreams]_vars

\* The phone reported streams for the session of a Call that has hung up,
\* and the Call kept its hangup fields.
C21_Witness ==
  /\ lastOp.op = "peerStreams"
  /\ \E ref \in DOMAIN heap :
       /\ heap[ref].id = lastOp.key
       /\ heap[ref].sip # 0
       /\ heap[ref].hangupAt # 0
       /\ heap[ref].state = "hangup"
       /\ ~heap[ref].peerStreams
       /\ \A q \in DOMAIN heap : heap[q].id = lastOp.key => q = ref

\* C22: an execute, dtmf, voice or silence event applied to a registered
\* Call changes only its own attribute (execute appends the application name
\* to the application log, dtmf appends the digit to the digit log, voice and
\* silence set the voice flag to true and false) and leaves the state, the
\* created, answered, bridged and hangup times, every other Call and the
\* registry's membership unchanged.
C22_AnnotationsOnly ==
  [][\A e \in UpdateEvents :
       (/\ OnCallUpdate(e)
        /\ e.event \in {"execute", "dtmf", "voice", "silence"}
        /\ CallById(e.id) # 0) =>
         LET ref == CallById(e.id)
             c == heap[ref]
             d == heap'[ref]
         IN  /\ d.applications = IF e.event = "execute"
                                   THEN c.applications \o <<e.application>>
                                   ELSE c.applications
             /\ d.digits = IF e.event = "dtmf" THEN c.digits \o <<e.digit>>
                           ELSE c.digits
             /\ d.voice = CASE e.event = "voice" -> TRUE
                             [] e.event = "silence" -> FALSE
                             [] OTHER -> c.voice
             /\ d.state = c.state
             /\ d.createdAt = c.createdAt /\ d.answeredAt = c.answeredAt
             /\ d.bridgedAt = c.bridgedAt /\ d.hangupAt = c.hangupAt
             /\ \A q \in DOMAIN heap : q # ref => heap'[q] = heap[q]
             /\ callStore' = callStore]_vars

\* A ringing Call received an execute event and then a silence event: its
\* application log has the name, its voice flag is off, and it is still
\* ringing and registered.
C22_Witness ==
  \E ref \in DOMAIN heap :
    /\ CallTrace(ref) = <<"ringing", "execute", "silence">>
    /\ heap[ref].applications = <<"playback">>
    /\ ~heap[ref].voice
    /\ heap[ref].state = "ringing"
    /\ CallById(heap[ref].id) = ref

\* C23: a pending request leaves the pending table when its reply is
\* processed or the session ends: once the transport has closed, the pending
\* table is empty.
C23_EmptyAfterClose == socket = "closed" => DOMAIN queueRequest = {}

\* C24: handling the greeting records the connection metadata and issues an
\* authentication request, and the registration of the phone, which starts
\* with the request for the device configuration, is attempted only once an
\* authentication request has been answered OK.
C24_HelloAuthenticates ==
  [][\A useWebPhone \in BOOLEAN :
       OnHello(useWebPhone) =>
         /\ connectionInfo' = "info"
         /\ \E i \in DOMAIN sent' :
              /\ i > Len(sent)
              /\ sent'[i].action = WEBSOCKET_AUTHENTICATION_CHALLENGE
         /\ \A i \in DOMAIN sent' :
              (i > Len(sent) /\ sent'[i].action = WEBSOCKET_DEFAULT_DEVICE_CONFIG) =>
                \E k \in DOMAIN futures :
                  /\ futures[k].action = WEBSOCKET_AUTHENTICATION_CHALLENGE
                  /\ futures[k].state = "fulfilled"]_vars

\* The subscribe calls made for handler h on the channel.
SubscribeCalls(channel, h) ==
  {i \in DOMAIN callers :
     callers[i] = [op |-> "subscribe", channel |-> channel, handler |-> h]}

\* C25: a handler passed to a subscribe method is added to its channel only
\* when the reply to that subscribe request arrives with status OK: while
\* every subscribe request for it is unanswered or was answered FAIL it is
\* not a subscriber, and no notification published on the channel is
\* delivered to it.
C25_SubscribedOnlyAfterOk ==
  [][\A c \in SubChannels, h \in Handlers :
       /\ (h \in handlers'[c] /\ h \notin handlers[c]) =>
            \E m \in Replies :
              /\ OnReply(m)
              /\ m.status = STATUS_OK
              /\ m.seq_reply \in DOMAIN queueRequest
              /\ queueRequest[m.seq_reply] \in SubscribeCalls(c, h)
       /\ h \in handlers'[c] =>
            \E i \in SubscribeCalls(c, h) : futures'[i].state = "fulfilled"
       /\ (/\ Len(emitted') = Len(emitted) + 1
           /\ emitted'[Len(emitted')].channel = c
           /\ h \in emitted'[Len(emitted')].to) =>
            \E i \in SubscribeCalls(c, h) : futures[i].state = "fulfilled"]_vars

\* A notification was published on a channel while the subscribe request for
\* h1 on that channel was unanswered or answered FAIL: h1 is no subscriber
\* and was not delivered it.
C25_Witness ==
  /\ lastOp.res = "emitted"
  /\ emitted # <<>>
  /\ LET n == emitted[Len(emitted)]
     IN  /\ n.channel \in SubChannels
         /\ SubscribeCalls(n.channel, "h1") # {}
         /\ \A i \in SubscribeCalls(n.channel, "h1") : futures[i].state # "fulfilled"
         /\ \E i \in SubscribeCalls(n.channel, "h1") : futures[i].state = "rejected"
         /\ "h1" \notin n.to
         /\ "h1" \notin handlers[n.channel]

====
